---- MODULE Spec2Model ----
(***************************************************************************)
(* Model of app.py, the US programs heat map dashboard: the credential     *)
(* check, the one-time load from the store, the construction of the base   *)
(* table, and the four callbacks (show_error_message,                      *)
(* update_device_selection, update_region_selection, update_map).          *)
(*                                                                         *)
(* A data frame is a sequence of records (one per row, in row order).  A   *)
(* pandas missing value is NaN.  A selection (the value of a multi-select  *)
(* dropdown) is a set: the code only tests it for emptiness and            *)
(* membership.                                                             *)
(***************************************************************************)
EXTENDS Integers, Sequences, FiniteSets, TLC

\* ------------------------------------------------------------------ bounds
\* Largest number of rows the programs fetch returns.
MaxRows == 3

\* ------------------------------------------------------------ value domain
\* os.getenv of an unset variable.
None == "<None>"
\* pandas' missing value (an unmapped key in Series.map, str.len of a non-string).
NaN == "<NaN>"
\* Python truthiness of a string-or-None value (None and "" are falsy; NaN, a
\* float that is not zero, is truthy).
Truthy(v) == v # None /\ v # ""

\* The values the two environment variables are drawn from.
EnvValues == {None, "", "https://store.example"}

\* ------------------------------------------------------- module constants
Southwest == {"AZ", "NM", "TX", "OK"}
West == {"CA", "OR", "WA", "NV", "ID", "MT", "WY", "CO", "UT"}
Southeast == {"FL", "GA", "SC", "NC", "VA", "AL", "MS", "TN", "KY", "AR", "LA"}
Midwest == {"IL", "IN", "MI", "OH", "WI", "MN", "IA", "MO", "ND", "SD", "NE", "KS"}
MidAtlantic == {"NY", "NJ", "PA", "DE", "MD", "WV"}
Northeast == {"ME", "NH", "VT", "MA", "RI", "CT"}

\* The dict state_to_region, as a function on its keys.
state_to_region ==
    [s \in Southwest \cup West \cup Southeast \cup Midwest \cup MidAtlantic \cup Northeast |->
        IF s \in Southwest THEN "Southwest"
        ELSE IF s \in West THEN "West"
        ELSE IF s \in Southeast THEN "Southeast"
        ELSE IF s \in Midwest THEN "Midwest"
        ELSE IF s \in MidAtlantic THEN "Mid-Atlantic"
        ELSE "Northeast"]

\* set(state_to_region.values())
Regions == {state_to_region[s] : s \in DOMAIN state_to_region}

region_centers ==
    [r \in {"Southwest", "West", "Southeast", "Midwest", "Mid-Atlantic", "Northeast"} |->
        CASE r = "Southwest" -> [lat |-> 34, lon |-> -106]
          [] r = "West" -> [lat |-> 42, lon |-> -117]
          [] r = "Southeast" -> [lat |-> 32, lon |-> -83]
          [] r = "Midwest" -> [lat |-> 42, lon |-> -92]
          [] r = "Mid-Atlantic" -> [lat |-> 40, lon |-> -76]
          [] OTHER -> [lat |-> 43, lon |-> -71]]

\* Series.map(d): the value of key k, NaN when k is no key of d.
Map(d, k) == IF k \in DOMAIN d THEN d[k] ELSE NaN

\* Series.str.len() == n: the length of a string is n; str.len() of a value that
\* is no string is NaN, and NaN == n is False.
StrLenIs(s, n) == IF s = None THEN FALSE ELSE Len(s) = n

\* ------------------------------------------------------------ the store
\* The rows of the device_categories collection when it is not empty.
DeviceCategoryRows ==
    << [id |-> 1, name |-> "Solar"], [id |-> 2, name |-> "EV Charger"] >>

\* The device names of the store.
DeviceNames == {DeviceCategoryRows[i].name : i \in DOMAIN DeviceCategoryRows}

\* Python's string order on the keys that occur (sorted(), groupby's key order).
KeyOrder == << "CA", "DC", "EV Charger", "Mid-Atlantic", "Midwest", "NY", "Northeast",
               "Ontario", "Solar", "Southeast", "Southwest", "TX", "West" >>

\* The kinds of rows the programs collection holds: two mapped states of
\* different regions, a 2-letter code that is no key of state_to_region, a
\* location that is no 2-letter code, a location that is no string, and a
\* device-category id that is no key of the device mapping.
ProgramRows ==
    { [state_province |-> "CA", device_category_id |-> 1],
      [state_province |-> "CA", device_category_id |-> 2],
      [state_province |-> "TX", device_category_id |-> 1],
      [state_province |-> "DC", device_category_id |-> 1],
      [state_province |-> "CA", device_category_id |-> 9],
      [state_province |-> "Ontario", device_category_id |-> 2],
      [state_province |-> None, device_category_id |-> 1] }

\* All sequences over S of length at most n.
SeqUpTo(S, n) == UNION {[1..k -> S] : k \in 0..n}

\* A response of the store client: the call raised, or returned rows.
Raised == [ok |-> FALSE, data |-> <<>>]
Returned(rows) == [ok |-> TRUE, data |-> rows]

\* What .execute() can produce for each collection.
DeviceResponses == {Raised, Returned(<<>>), Returned(DeviceCategoryRows)}
ProgramResponses == {Raised} \cup {Returned(t) : t \in SeqUpTo(ProgramRows, MaxRows)}

\* ---------------------------------------------------------------- state
VARIABLES
    SUPABASE_URL,       \* os.getenv("SUPABASE_URL")
    SUPABASE_KEY,       \* os.getenv("SUPABASE_KEY")
    pc,                 \* position of the module's top-level code
    supabase,           \* TRUE once create_client has run
    device_fetches,     \* number of fetches of device_categories issued
    program_fetches,    \* number of fetches of programs issued
    df_programs,        \* the loaded programs table
    device_dict,        \* the loaded id -> name mapping
    df_us_programs,     \* the base table
    device_options,     \* the values of the device dropdown's options, in order
    device_filter,      \* value of the 'device-filter' dropdown
    region_filter,      \* value of the 'region-filter' dropdown
    load_outcome,       \* the path load_data took: "" before it ran
    pending,            \* id of the component whose event changed an input of update_map
                        \* that has not run since; "" when update_map is up to date
    error_message,      \* children of 'error-message'
    figure,             \* figure of 'programs-map'
    summary             \* children of 'summary-stats'

vars == << SUPABASE_URL, SUPABASE_KEY, pc, supabase, device_fetches, program_fetches,
           df_programs, device_dict, df_us_programs, device_options, device_filter,
           region_filter, load_outcome, pending, error_message, figure, summary >>

env == << SUPABASE_URL, SUPABASE_KEY >>
loaded == << df_programs, device_dict, load_outcome >>
fetches == << device_fetches, program_fetches >>
base == << df_us_programs, device_options >>
filters == << device_filter, region_filter >>
outputs == << error_message, figure, summary >>

\* Nothing rendered yet.
Unset == [kind |-> "unset"]

Init ==
    /\ SUPABASE_URL \in EnvValues
    /\ SUPABASE_KEY \in EnvValues
    /\ pc = "credentials"
    /\ supabase = FALSE
    /\ device_fetches = 0
    /\ program_fetches = 0
    /\ df_programs = <<>>
    /\ device_dict = <<>>
    /\ df_us_programs = <<>>
    /\ device_options = <<>>
    /\ device_filter = {}
    /\ region_filter = {}
    /\ load_outcome = ""
    /\ pending = ""
    /\ error_message = Unset
    /\ figure = Unset
    /\ summary = Unset

\* ------------------------------------------------- 1. store connection
\* Variant: one of the two settings is enough.
CredentialsPresent_Either(url, key) == Truthy(url) \/ Truthy(key)

\* SUPABASE_URL and SUPABASE_KEY
CredentialsPresent(url, key) == Truthy(url) /\ Truthy(key)

\* if not (SUPABASE_URL and SUPABASE_KEY): raise ValueError(...)
CheckCredentials ==
    /\ pc = "credentials"
    /\ pc' = IF CredentialsPresent(SUPABASE_URL, SUPABASE_KEY) THEN "create_client" ELSE "aborted"
    /\ UNCHANGED << env, supabase, fetches, loaded, base, filters, pending, outputs >>

\* supabase = create_client(SUPABASE_URL, SUPABASE_KEY)
CreateClient ==
    /\ pc = "create_client"
    /\ supabase' = TRUE
    /\ pc' = "load_data"
    /\ UNCHANGED << env, fetches, loaded, base, filters, pending, outputs >>

\* ------------------------------------------------------ 2. data loading
\* dict(zip(device_categories['id'], device_categories['name'])): a later row
\* of the same id overwrites an earlier one.
DictZip(rows) ==
    [k \in {rows[i].id : i \in DOMAIN rows} |->
        rows[CHOOSE i \in DOMAIN rows :
                /\ rows[i].id = k
                /\ \A j \in DOMAIN rows : rows[j].id = k => j <= i].name]

\* Variant: the except branch hands back the mapping built before the failure.
LoadFailure_KeepsMapping(why, nd, np) ==
    [df_programs |-> <<>>,
     device_dict |-> IF np = 1 THEN DictZip(DeviceCategoryRows) ELSE <<>>,
     outcome |-> why, device_fetches |-> nd, program_fetches |-> np]

\* return pd.DataFrame(), {}  (the except branch)
LoadFailure(why, nd, np) ==
    [df_programs |-> <<>>, device_dict |-> <<>>, outcome |-> why,
     device_fetches |-> nd, program_fetches |-> np]

\* load_data(): the returned pair, the path taken and the number of fetches issued.  An
\* empty device_categories result has no 'id' column (KeyError); both it and
\* the ValueError of an empty programs result are caught by the except branch.
load_data(device_response, programs_response) ==
    IF ~device_response.ok THEN LoadFailure("device fetch raised", 1, 0)
    ELSE IF device_response.data = <<>> THEN LoadFailure("no device categories", 1, 0)
    ELSE IF ~programs_response.ok THEN LoadFailure("programs fetch raised", 1, 1)
    ELSE IF programs_response.data = <<>> THEN LoadFailure("no programs", 1, 1)
    ELSE [df_programs |-> programs_response.data,
          device_dict |-> DictZip(device_response.data),
          outcome |-> "ok",
          device_fetches |-> 1, program_fetches |-> 1]

\* Variant: a failed load is tried again.
LoadData_Retry ==
    /\ pc = "load_data"
    /\ \E dr \in DeviceResponses, pr \in ProgramResponses :
         LET r == load_data(dr, pr) IN
           /\ df_programs' = r.df_programs
           /\ device_dict' = r.device_dict
           /\ load_outcome' = r.outcome
           /\ device_fetches' = device_fetches + r.device_fetches
           /\ program_fetches' = program_fetches + r.program_fetches
           /\ pc' = IF r.outcome = "ok" THEN "process" ELSE "load_data"
    /\ UNCHANGED << env, supabase, base, filters, pending, outputs >>

\* df_programs, device_dict = load_data()
LoadData ==
    /\ pc = "load_data"
    /\ \E dr \in DeviceResponses, pr \in ProgramResponses :
         LET r == load_data(dr, pr) IN
           /\ df_programs' = r.df_programs
           /\ device_dict' = r.device_dict
           /\ load_outcome' = r.outcome
           /\ device_fetches' = device_fetches + r.device_fetches
           /\ program_fetches' = program_fetches + r.program_fetches
    /\ pc' = "process"
    /\ UNCHANGED << env, supabase, base, filters, pending, outputs >>

\* --------------------------------------------- 3. process and prepare data
\* DataFrame.empty
Empty(df) == Len(df) = 0

\* df_programs[df_programs['state_province'].str.len() == 2] with the two
\* mapped columns added.
USPrograms(df, dict) ==
    LET us == SelectSeq(df, LAMBDA r : StrLenIs(r.state_province, 2))
    IN [i \in DOMAIN us |->
          [state_province |-> us[i].state_province,
           device_category_id |-> us[i].device_category_id,
           device_name |-> Map(dict, us[i].device_category_id),
           region |-> Map(state_to_region, us[i].state_province)]]

\* sorted(S) of a set of strings.
Sorted(S) == SelectSeq(KeyOrder, LAMBDA k : k \in S)

\* sorted(df['device_name'].dropna().unique())
DeviceOptions(df) == Sorted({df[i].device_name : i \in DOMAIN df} \ {NaN})

\* The elements of a sequence.
Values(seq) == {seq[i] : i \in DOMAIN seq}

\* if not df_programs.empty and device_dict: ... (else both stay empty)
ProcessData ==
    /\ pc = "process"
    /\ IF ~Empty(df_programs) /\ device_dict # <<>>
         THEN /\ df_us_programs' = USPrograms(df_programs, device_dict)
              /\ device_options' = DeviceOptions(df_us_programs')
         ELSE /\ df_us_programs' = <<>>
              /\ device_options' = <<>>
    /\ pc' = "layout"
    /\ UNCHANGED << env, supabase, fetches, loaded, filters, pending, outputs >>

\* ---------------------------------------------------------- 4. the app
\* app.layout: with device options, the two dropdowns start fully selected;
\* without, the page has neither dropdowns nor buttons.
Layout ==
    /\ pc = "layout"
    /\ IF device_options # <<>>
         THEN /\ device_filter' = Values(device_options)
              /\ region_filter' = Regions
         ELSE UNCHANGED filters
    /\ pc' = "run_server"
    /\ UNCHANGED << env, supabase, fetches, loaded, base, pending, outputs >>

\* app.run_server(...): the server binds; the page's first load calls update_map.
RunServer ==
    /\ pc = "run_server"
    /\ pc' = "serving"
    /\ pending' = "page-load"
    /\ UNCHANGED << env, supabase, fetches, loaded, base, filters, outputs >>

\* ------------------------------------------------------- 5. callbacks
\* The warning show_error_message returns when nothing was loaded.
UnableToLoad == [kind |-> "Unable to load data"]
NoMessage == [kind |-> ""]

\* show_error_message(_)
show_error_message(df, dict) ==
    IF Empty(df) \/ dict = <<>> THEN UnableToLoad ELSE NoMessage

\* The return value dash.no_update: the output keeps its value.
no_update == [kind |-> "no_update"]
Value(v) == [kind |-> "value", value |-> v]

\* The buttons of each callback; "" is a call with nothing in ctx.triggered.
DeviceButtons == {"select-all-devices", "clear-all-devices", ""}
RegionButtons == {"select-all-regions", "clear-all-regions", ""}

\* Variant: 'Select All Devices' selects every device category of the store.
update_device_selection_AllCategories(button_id, options) ==
    IF options = <<>> THEN Value({})
    ELSE IF button_id = "" THEN no_update
    ELSE IF button_id = "select-all-devices" THEN Value(DeviceNames)
    ELSE IF button_id = "clear-all-devices" THEN Value({})
    ELSE no_update

\* update_device_selection(select_all, clear_all), by the id of the button that
\* triggered it.
update_device_selection(button_id, options) ==
    IF options = <<>> THEN Value({})
    ELSE IF button_id = "" THEN no_update
    ELSE IF button_id = "select-all-devices" THEN Value(Values(options))
    ELSE IF button_id = "clear-all-devices" THEN Value({})
    ELSE no_update

\* update_region_selection(select_all, clear_all)
update_region_selection(button_id) ==
    IF button_id = "" THEN no_update
    ELSE IF button_id = "select-all-regions" THEN Value(Regions)
    ELSE IF button_id = "clear-all-regions" THEN Value({})
    ELSE no_update

\* Variant: a missing value passes every membership test.
isin_MissingMatches(v, values) == v \in values \/ v = NaN

\* Series.isin(values)
isin(v, values) == v \in values

\* Variant: an empty device selection keeps every row.
FilterDevices_EmptyIsAll(df, selected_devices) ==
    IF selected_devices # {}
      THEN SelectSeq(df, LAMBDA r : r.device_name \in selected_devices)
      ELSE df

\* if selected_devices: df[df['device_name'].isin(selected_devices)] else df.iloc[0:0]
FilterDevices(df, selected_devices) ==
    IF selected_devices # {}
      THEN SelectSeq(df, LAMBDA r : isin(r.device_name, selected_devices))
      ELSE <<>>

\* Variant: the region selection is tested for emptiness only.
FilterRegions_Skip(df, selected_regions) ==
    IF selected_regions # {} THEN df ELSE <<>>

\* if selected_regions: df[df['region'].isin(selected_regions)] else df.iloc[0:0]
FilterRegions(df, selected_regions) ==
    IF selected_regions # {}
      THEN SelectSeq(df, LAMBDA r : isin(r.region, selected_regions))
      ELSE <<>>

\* Number of rows of df whose value in the column is k.
SizeOf(df, column, k) == Cardinality({i \in DOMAIN df : df[i][column] = k})

\* df.groupby(column).size(): one entry per value of the column in key order,
\* rows whose value is missing dropped.
groupby_size(df, column) ==
    LET keys == Sorted({df[i][column] : i \in DOMAIN df} \ {NaN})
    IN [n \in DOMAIN keys |-> [key |-> keys[n], size |-> SizeOf(df, column, keys[n])]]

\* Variant: ascending order.
sort_values_Ascending(series) ==
    LET n == Len(series)
        perms == {f \in [1..n -> 1..n] : \A i, j \in 1..n : i # j => f[i] # f[j]}
    IN {[i \in 1..n |-> series[f[i]]] : f \in
          {g \in perms : \A i, j \in 1..n : i < j => series[g[i]].size <= series[g[j]].size}}

\* Series.sort_values(ascending=False) with the default kind, which is not a
\* stable sort: every arrangement of the entries by descending size is a
\* possible result.
sort_values(series) ==
    LET n == Len(series)
        perms == {f \in [1..n -> 1..n] : \A i, j \in 1..n : i # j => f[i] # f[j]}
    IN {[i \in 1..n |-> series[f[i]]] : f \in
          {g \in perms : \A i, j \in 1..n : i < j => series[g[i]].size >= series[g[j]].size}}

\* Variant: the number of distinct device names of each state, not of its rows.
StateTotals_Nunique(filtered_df) ==
    LET by_state == groupby_size(filtered_df, "state_province")
    IN [n \in DOMAIN by_state |->
          [state |-> by_state[n].key,
           programs |-> Cardinality({filtered_df[i].device_name : i \in
                           {j \in DOMAIN filtered_df : filtered_df[j].state_province = by_state[n].key}}),
           region |-> Map(state_to_region, by_state[n].key)]]

\* state_totals before the hover text is added: filtered_df.groupby(
\* 'state_province').size() with the column region mapped from the state.
StateTotals(filtered_df) ==
    LET by_state == groupby_size(filtered_df, "state_province")
    IN [n \in DOMAIN by_state |->
          [state |-> by_state[n].key, programs |-> by_state[n].size,
           region |-> Map(state_to_region, by_state[n].key)]]

\* The hover text of one row of state_totals.
HoverText(state_row, selected_regions, region_totals, region_device_counts) ==
    LET region == state_row.region
    IN IF Truthy(region) /\ region \in selected_regions
         THEN LET hit == SelectSeq(region_totals, LAMBDA t : t.key = region)
              IN [kind |-> "region",
                  label |-> region,
                  region_total |-> IF Len(hit) > 0 THEN hit[1].size ELSE 0,
                  devices |-> SelectSeq(region_device_counts, LAMBDA c : c.region = region)]
         ELSE [kind |-> "No data for selected filters",
               label |-> state_row.state, region_total |-> 0, devices |-> <<>>]

\* filtered_df.groupby(['region', 'device_name']).size(): ordered by region,
\* then by device name.
RegionDeviceCounts(df) ==
    LET regions == Sorted({df[i].region : i \in DOMAIN df} \ {NaN})
        Of(rg) == groupby_size(SelectSeq(df, LAMBDA r : r.region = rg), "device_name")
        Rec(rg, e) == [region |-> rg, device_name |-> e.key, count |-> e.size]
        RECURSIVE Cat(_)
        Cat(n) == IF n = 0 THEN <<>>
                  ELSE Cat(n - 1) \o [m \in DOMAIN Of(regions[n]) |-> Rec(regions[n], Of(regions[n])[m])]
    IN Cat(Len(regions))

NoDataFigure ==
    [kind |-> "No data available", total |-> 0, state_totals |-> <<>>, region_labels |-> {}]
NoDataSummary ==
    [kind |-> "No data available", total_programs |-> 0, total_states |-> 0,
     total_regions |-> 0, device_breakdown |-> <<>>]
EmptyFigure ==
    [kind |-> "No data available for selected filters", total |-> 0, state_totals |-> <<>>,
     region_labels |-> {}]
EmptySummary ==
    [kind |-> "No programs match the selected filters.", total_programs |-> 0,
     total_states |-> 0, total_regions |-> 0, device_breakdown |-> <<>>]

\* update_map past its first return: filter the base table and aggregate.  The
\* set of pairs << figure, summary >> it can return.
FilterAndAggregate(df, selected_devices, selected_regions) ==
      LET filtered_df == FilterRegions(FilterDevices(df, selected_devices), selected_regions)
      IN IF Len(filtered_df) > 0
           THEN
             LET totals == StateTotals(filtered_df)
                 region_totals == groupby_size(filtered_df, "region")
                 region_device_counts == RegionDeviceCounts(filtered_df)
                 state_totals == [n \in DOMAIN totals |->
                              [state |-> totals[n].state, programs |-> totals[n].programs,
                               region |-> totals[n].region,
                               hover_text |-> HoverText(totals[n], selected_regions,
                                                        region_totals, region_device_counts)]]
                 fig == [kind |-> "Programs for Selected Device Types",
                         total |-> Len(filtered_df),
                         state_totals |-> state_totals,
                         region_labels |-> {r \in DOMAIN region_centers : r \in selected_regions}]
             IN {<< fig,
                    [kind |-> "Summary Statistics",
                     total_programs |-> Len(filtered_df),
                     total_states |-> Len(state_totals),
                     total_regions |-> Len(region_totals),
                     device_breakdown |-> bd] >> :
                 bd \in sort_values(groupby_size(filtered_df, "device_name"))}
           ELSE {<< EmptyFigure, EmptySummary >>}

\* Variant: no first return for an empty base table.
update_map_NoShortCircuit(df, selected_devices, selected_regions) ==
    FilterAndAggregate(df, selected_devices, selected_regions)

\* update_map(selected_devices, selected_regions) on the base table df.
update_map(df, selected_devices, selected_regions) ==
    IF Empty(df) THEN {<< NoDataFigure, NoDataSummary >>}
    ELSE FilterAndAggregate(df, selected_devices, selected_regions)

\* The selections a user makes in the two dropdowns.
DeviceChoices == SUBSET DeviceNames
RegionChoices == {{}, {"West"}, {"West", "Northeast"}}

\* The page calls show_error_message when it loads.
ShowErrorMessage ==
    /\ pc = "serving"
    /\ error_message' = show_error_message(df_programs, device_dict)
    /\ UNCHANGED << env, pc, supabase, fetches, loaded, base, filters, pending, figure, summary >>

\* The user changes the device dropdown.
DeviceFilterChanged ==
    /\ pc = "serving" /\ pending = ""
    /\ \E sel \in DeviceChoices : device_filter' = sel
    /\ pending' = "device-filter"
    /\ UNCHANGED << env, pc, supabase, fetches, loaded, base, region_filter, outputs >>

\* The user changes the region dropdown.
RegionFilterChanged ==
    /\ pc = "serving" /\ pending = ""
    /\ \E sel \in RegionChoices : region_filter' = sel
    /\ pending' = "region-filter"
    /\ UNCHANGED << env, pc, supabase, fetches, loaded, base, device_filter, outputs >>

\* A click on one of the two device buttons: the callback's return value becomes
\* the value of 'device-filter', an input of update_map.
UpdateDeviceSelection ==
    /\ pc = "serving" /\ pending = ""
    /\ \E b \in DeviceButtons :
         LET out == update_device_selection(b, device_options) IN
           IF out = no_update
             THEN UNCHANGED << device_filter, pending >>
             ELSE device_filter' = out.value /\ pending' = b
    /\ UNCHANGED << env, pc, supabase, fetches, loaded, base, region_filter, outputs >>

\* A click on one of the two region buttons.
UpdateRegionSelection ==
    /\ pc = "serving" /\ pending = ""
    /\ \E b \in RegionButtons :
         LET out == update_region_selection(b) IN
           IF out = no_update
             THEN UNCHANGED << region_filter, pending >>
             ELSE region_filter' = out.value /\ pending' = b
    /\ UNCHANGED << env, pc, supabase, fetches, loaded, base, device_filter, outputs >>

\* The framework calls update_map with the current values of its two inputs.
UpdateMap ==
    /\ pc = "serving" /\ pending # ""
    /\ \E out \in update_map(df_us_programs, device_filter, region_filter) :
         /\ figure' = out[1]
         /\ summary' = out[2]
    /\ pending' = ""
    /\ UNCHANGED << env, pc, supabase, fetches, loaded, base, filters, error_message >>

Next ==
    \/ CheckCredentials
    \/ CreateClient
    \/ LoadData
    \/ ProcessData
    \/ Layout
    \/ RunServer
    \/ ShowErrorMessage
    \/ DeviceFilterChanged
    \/ RegionFilterChanged
    \/ UpdateDeviceSelection
    \/ UpdateRegionSelection
    \/ UpdateMap

Spec == Init /\ [][Next]_vars

\* ================================================================ claims
\* update_map has run on the current values of the two dropdowns.
Rendered == pc = "serving" /\ pending = "" /\ figure # Unset

\* The six regions.
SixRegions == {"Southwest", "West", "Southeast", "Midwest", "Mid-Atlantic", "Northeast"}

\* The positions of the rows that are to count: device name present and
\* selected, region present and selected.
Contributing(df, devs, regs) ==
    {i \in DOMAIN df : /\ df[i].device_name # NaN /\ df[i].region # NaN
                       /\ df[i].device_name \in devs /\ df[i].region \in regs}

RECURSIVE Sum(_)
\* Sum of a sequence of numbers.
Sum(seq) == IF seq = <<>> THEN 0 ELSE Head(seq) + Sum(Tail(seq))

\* The entries of a sequence of records that have value v in field f.
Where(seq, f, v) == SelectSeq(seq, LAMBDA e : e[f] = v)
\* Sum of field f over a sequence of records.
SumOf(seq, f) == Sum([n \in DOMAIN seq |-> seq[n][f]])

\* The count a figure reports for state s (0 when s is not listed).
PerState(fig, s) == SumOf(Where(fig.state_totals, "state", s), "programs")
\* The count a hover text reports for device d.
HoverCount(h, d) == SumOf(Where(h.devices, "device_name", d), "count")
\* The count the summary's device breakdown reports for device d.
BreakdownCount(sm, d) == SumOf(Where(sm.device_breakdown, "key", d), "size")

\* Every count of the pair (fig, sm) is the count of the rows C of df.
CountsAre(fig, sm, df, C) ==
    /\ fig.total = Cardinality(C)
    /\ sm.total_programs = Cardinality(C)
    /\ sm.total_states = Cardinality({df[i].state_province : i \in C})
    /\ sm.total_regions = Cardinality({df[i].region : i \in C})
    /\ \A i \in DOMAIN df :
         PerState(fig, df[i].state_province) =
            Cardinality({j \in C : df[j].state_province = df[i].state_province})
    /\ \A n \in DOMAIN fig.state_totals :
         LET t == fig.state_totals[n] IN
           /\ PerState(fig, t.state) = t.programs
           /\ t.hover_text.kind = "region" =>
                /\ t.hover_text.region_total = Cardinality({j \in C : df[j].region = t.hover_text.label})
                /\ \A d \in DeviceNames \cup {NaN} :
                     HoverCount(t.hover_text, d) =
                        Cardinality({j \in C : df[j].region = t.hover_text.label /\ df[j].device_name = d})
    /\ \A d \in DeviceNames \cup {NaN} :
         BreakdownCount(sm, d) = Cardinality({j \in C : df[j].device_name = d})

\* C1: with a non-empty base table, the total, the per-state counts, the
\* per-region totals and the per-region-per-device counts of update_map's result
\* count exactly the rows whose device name is selected and whose region is
\* selected; a row without region or without device name is never counted.
C1_CountedIffSelected ==
    (Rendered /\ ~Empty(df_us_programs)) =>
        CountsAre(figure, summary, df_us_programs,
                  Contributing(df_us_programs, device_filter, region_filter))

\* A result that counts some rows but not a row without region, a row without
\* device name and a row of an unselected region, all present in the base table.
C1_Witness ==
    /\ Rendered
    /\ figure.total >= 1
    /\ \E i \in DOMAIN df_us_programs : df_us_programs[i].region = NaN
    /\ \E i \in DOMAIN df_us_programs : df_us_programs[i].device_name = NaN
    /\ device_filter = DeviceNames

\* C2 as stated: an empty selection gives the 'empty after filtering' result
\* whatever the base table holds.
C2_EmptySelectionAlwaysEmptyAfterFiltering ==
    (Rendered /\ (device_filter = {} \/ region_filter = {})) =>
        (figure = EmptyFigure /\ summary = EmptySummary)

\* C2, amended: an empty selection gives a result of zero rows, and with a
\* non-empty base table it is the 'empty after filtering' result.
C2_EmptySelectionNothing ==
    (Rendered /\ (device_filter = {} \/ region_filter = {})) =>
        /\ figure.total = 0 /\ figure.state_totals = <<>>
        /\ ~Empty(df_us_programs) => (figure = EmptyFigure /\ summary = EmptySummary)

\* An empty device selection, every region selected, over a base table with a
\* row that every-device-selected would count.
C2_Witness ==
    /\ Rendered
    /\ device_filter = {} /\ region_filter = SixRegions
    /\ Contributing(df_us_programs, DeviceNames, SixRegions) # {}
    /\ figure = EmptyFigure

\* C3: with an empty base table every result of update_map is the 'no data'
\* result, never the 'empty after filtering' result, whatever the selections.
C3_EmptyBaseNoData ==
    (pc = "serving" /\ figure # Unset /\ Empty(df_us_programs)) =>
        /\ figure = NoDataFigure /\ summary = NoDataSummary
        /\ figure # EmptyFigure /\ summary # EmptySummary

\* The 'no data' result for an empty selection, after a load that returned rows
\* none of which has a 2-letter location.
C3_Witness ==
    /\ Rendered
    /\ ~Empty(df_programs) /\ Empty(df_us_programs)
    /\ device_filter = {}
    /\ figure = NoDataFigure

\* C4: for non-empty selections the per-state counts add up to the total.
C4_StateCountsSumToTotal ==
    (Rendered /\ device_filter # {} /\ region_filter # {}) =>
        /\ SumOf(figure.state_totals, "programs") = figure.total
        /\ figure.total = summary.total_programs
        /\ figure.total = Cardinality(Contributing(df_us_programs, device_filter, region_filter))

\* Two states listed, one of them with two rows of different devices.
C4_Witness ==
    /\ Rendered
    /\ device_filter # {} /\ region_filter # {}
    /\ Len(figure.state_totals) = 2
    /\ figure.total = 3
    /\ Len(summary.device_breakdown) = 2

\* The load took the except branch.
LoadFailed == load_outcome \notin {"", "ok"}

\* C5: load_data returns on every path; after an exception in either fetch
\* or a programs fetch of zero rows the table and the mapping are both empty
\* (never one empty and the other not), the module's code goes on to serve, and
\* show_error_message returns the 'Unable to load data' warning.
C5_LoadDegrades ==
    /\ load_outcome # "" => pc \in {"process", "layout", "run_server", "serving"}
    /\ LoadFailed => (Empty(df_programs) /\ device_dict = <<>>)
    /\ load_outcome # "" => (Empty(df_programs) <=> device_dict = <<>>)
    /\ (LoadFailed /\ error_message # Unset) => error_message = UnableToLoad

\* A programs fetch of zero rows, the server up, the warning shown.
C5_Witness ==
    /\ load_outcome = "no programs"
    /\ pc = "serving"
    /\ error_message = UnableToLoad
    /\ program_fetches = 1

\* The positions of the top-level code before and after the load.
BeforeLoad == {"credentials", "create_client", "load_data", "aborted"}
AfterLoad == {"process", "layout", "run_server", "serving"}

\* No fetch before the load; no callback before the server serves; after a
\* failed load every result is the 'no data' result.
C6_Order ==
    /\ pc \in BeforeLoad => (device_fetches = 0 /\ program_fetches = 0)
    /\ (figure # Unset \/ summary # Unset \/ error_message # Unset \/ pending # "") => pc = "serving"
    /\ (LoadFailed /\ figure # Unset) => (figure = NoDataFigure /\ summary = NoDataSummary)

\* After the load each of the two fetches has been issued exactly once.
C6_BothFetchedOnce ==
    pc \in AfterLoad => (device_fetches = 1 /\ program_fetches = 1)

\* After the load the device categories have been fetched exactly once, and the
\* programs once unless the device step failed, and then not at all.
C6_FetchedOnce ==
    pc \in AfterLoad =>
         /\ device_fetches = 1
         /\ program_fetches = (IF load_outcome \in {"device fetch raised", "no device categories"}
                                 THEN 0 ELSE 1)

C6_Step ==
    /\ pc \in AfterLoad =>
         UNCHANGED << device_fetches, program_fetches, df_programs, device_dict, load_outcome >>
    /\ pc = "serving" => (pc' = "serving" /\ UNCHANGED << df_us_programs, device_options >>)

C6_StateAsStated == C6_Order /\ C6_BothFetchedOnce
C6_State == C6_Order /\ C6_FetchedOnce

\* C6 as stated: both fetches run exactly once, at startup, before any event
\* is handled, and never again; after a failed load every result of update_map
\* is the 'no data' result; the base table never changes while serving.
C6_TwoFetchesExactlyOnce == []C6_StateAsStated /\ [][C6_Step]_vars

\* C6, amended: the load runs once, at startup, before any event is handled:
\* the device categories are fetched exactly once and the programs at most
\* once (not at all when the device step failed), and nothing is fetched
\* again; after a failed load every result of update_map is the 'no data'
\* result; the loaded data and the base table never change while serving.
C6_LoadOnceReadOnly == []C6_State /\ [][C6_Step]_vars

\* After a programs fetch that raised: a 'no data' result for a region
\* selection the user made.
C6_Witness ==
    /\ load_outcome = "programs fetch raised"
    /\ Rendered
    /\ region_filter = {"West"}
    /\ figure = NoDataFigure
    /\ device_fetches = 1 /\ program_fetches = 1

\* A setting that is unset or empty.
Missing(v) == v = None \/ v = ""

\* C7: with the endpoint URL or the access key missing, the top-level code
\* never gets past the credential check: no client is created, no fetch is
\* issued, the server never serves and no callback ever runs.
C7_MissingCredentialsAbort ==
    (Missing(SUPABASE_URL) \/ Missing(SUPABASE_KEY)) =>
        /\ pc \in {"credentials", "aborted"}
        /\ ~supabase
        /\ device_fetches = 0 /\ program_fetches = 0 /\ load_outcome = ""
        /\ pending = ""
        /\ figure = Unset /\ summary = Unset /\ error_message = Unset

\* The start aborted with the URL set and the key unset.
C7_Witness ==
    /\ pc = "aborted"
    /\ ~Missing(SUPABASE_URL)
    /\ SUPABASE_KEY = None

\* The distinct device names of the base table, missing ones apart.
KnownDeviceNames ==
    {df_us_programs[i].device_name : i \in DOMAIN df_us_programs} \ {NaN}

\* The result (fig, sm) is the aggregate of the base table df for the
\* selections devs and regs.
AggregateFor(fig, sm, df, devs, regs) ==
    IF Empty(df) THEN fig = NoDataFigure /\ sm = NoDataSummary
    ELSE IF Contributing(df, devs, regs) = {} THEN fig = EmptyFigure /\ sm = EmptySummary
    ELSE /\ fig.kind = "Programs for Selected Device Types"
         /\ CountsAre(fig, sm, df, Contributing(df, devs, regs))

Buttons == {"select-all-devices", "clear-all-devices", "select-all-regions", "clear-all-regions"}

C8_Step ==
    /\ (pending = "" /\ pending' = "select-all-devices") =>
         (device_filter' = KnownDeviceNames /\ region_filter' = region_filter)
    /\ (pending = "" /\ pending' = "clear-all-devices") =>
         (device_filter' = {} /\ region_filter' = region_filter)
    /\ (pending = "" /\ pending' = "select-all-regions") =>
         (region_filter' = SixRegions /\ device_filter' = device_filter)
    /\ (pending = "" /\ pending' = "clear-all-regions") =>
         (region_filter' = {} /\ device_filter' = device_filter)
    /\ (pending \in Buttons /\ pending' = "") =>
         /\ UNCHANGED << device_filter, region_filter >>
         /\ AggregateFor(figure', summary', df_us_programs, device_filter, region_filter)

\* C8: each bulk button sets its own filter only ('Select All Devices': the
\* device names of the base table; 'Select All Regions': the six regions; the
\* two 'Clear All': the empty set), and the update_map call that follows
\* returns the aggregate for the resulting pair of selections.
C8_BulkButtons == [][C8_Step]_vars

\* 'Select All Devices' was clicked while one region was selected: every known
\* device is selected, the region selection is as it was, and update_map is due.
C8_Witness ==
    /\ pending = "select-all-devices"
    /\ device_filter = KnownDeviceNames /\ KnownDeviceNames # {}
    /\ KnownDeviceNames # DeviceNames
    /\ region_filter = {"West"}
    /\ figure = EmptyFigure

\* C9: every state listed in the per-state counts has a region, and that
\* region is selected, so no hover text is the 'No data for selected filters'
\* text; each hover text shows the state's region, the region's total and the
\* region's counts per device.
C9_DefensiveBranchUnreachable ==
    figure # Unset =>
      \A n \in DOMAIN figure.state_totals :
        LET t == figure.state_totals[n]
            C == Contributing(df_us_programs, device_filter, region_filter)
        IN /\ t.hover_text.kind = "region"
           /\ t.region \in SixRegions
           /\ t.region = state_to_region[t.state]
           /\ t.hover_text.label = t.region
           /\ pending = "" =>
                /\ t.region \in region_filter
                /\ t.hover_text.region_total =
                      Cardinality({j \in C : df_us_programs[j].region = t.region})
                /\ \A d \in DeviceNames \cup {NaN} :
                     HoverCount(t.hover_text, d) =
                        Cardinality({j \in C : /\ df_us_programs[j].region = t.region
                                               /\ df_us_programs[j].device_name = d})

\* A state listed while the base table holds a row without region and a row of
\* a region that is not selected.
C9_Witness ==
    /\ Rendered
    /\ Len(figure.state_totals) >= 1
    /\ region_filter = {"West"}
    /\ \E i \in DOMAIN df_us_programs : df_us_programs[i].region = NaN
    /\ \E i \in DOMAIN df_us_programs : df_us_programs[i].region = "Southwest"

\* The first position among the counted rows of a row of device d.
FirstOccurrence(d) ==
    LET C == Contributing(df_us_programs, device_filter, region_filter)
        P == {i \in C : df_us_programs[i].device_name = d}
    IN CHOOSE i \in P : \A j \in P : i <= j

\* C10 as stated: the summary's device breakdown is in descending order of
\* count, devices of equal count in the order of their first rows.
C10_TiesInEncounterOrder ==
    Rendered =>
      LET bd == summary.device_breakdown IN
        \A a, b \in DOMAIN bd :
          a < b => \/ bd[a].size > bd[b].size
                   \/ /\ bd[a].size = bd[b].size
                      /\ FirstOccurrence(bd[a].key) < FirstOccurrence(bd[b].key)

\* C10, amended: the summary's device breakdown lists each device of the
\* counted rows once, with its count, in descending order of count; the order
\* of devices of equal count is not fixed.
C10_DescendingCount ==
    Rendered =>
      LET bd == summary.device_breakdown
          C == Contributing(df_us_programs, device_filter, region_filter)
      IN /\ \A a, b \in DOMAIN bd : a < b => (bd[a].size >= bd[b].size /\ bd[a].key # bd[b].key)
         /\ \A a \in DOMAIN bd : bd[a].size >= 1
         /\ \A d \in DeviceNames \cup {NaN} :
              BreakdownCount(summary, d) =
                 Cardinality({j \in C : df_us_programs[j].device_name = d})

\* A breakdown of two devices of different counts, the device with fewer rows
\* first in the table.
C10_Witness ==
    /\ Rendered
    /\ Len(summary.device_breakdown) = 2
    /\ summary.device_breakdown[1].size > summary.device_breakdown[2].size
    /\ df_us_programs[1].device_name = summary.device_breakdown[2].key

====
